---- MODULE Spec2Model ----
(***************************************************************************)
(* Emergency triage assistant: the TriageAgent orchestrator, the triage    *)
(* pipeline (classifier overrides, severity engine, location extractor,    *)
(* guidance step), the conversation summarizer and the reply generator     *)
(* with its process-level "already submitted" latch.                       *)
(*                                                                         *)
(* Texts are TLA+ strings; Python's substring test, strip, lower, join and *)
(* slicing are modelled character by character.                            *)
(***************************************************************************)
EXTENDS Integers, Sequences, FiniteSets, TLC

(***************************************************************************)
(* String primitives (Python str semantics)                                *)
(***************************************************************************)

\* s[i] as a one-character string (1-based)
CharAt(s, i) == SubSeq(s, i, i)

\* Python: k in s
Contains(s, k) ==
    \E i \in 1..(Len(s) - Len(k) + 1) : SubSeq(s, i, i + Len(k) - 1) = k

\* Python: any(k in s for k in ks)
ContainsAny(s, ks) == \E k \in ks : Contains(s, k)

\* Python: s.startswith(p)
StartsWith(s, p) == Len(p) <= Len(s) /\ SubSeq(s, 1, Len(p)) = p

\* whitespace characters of the modelled texts
IsSpace(c) == c \in {" ", "\t", "\n"}

RECURSIVE LStrip(_)
LStrip(s) ==
    IF Len(s) > 0 /\ IsSpace(CharAt(s, 1)) THEN LStrip(SubSeq(s, 2, Len(s))) ELSE s

RECURSIVE RStrip(_)
RStrip(s) ==
    IF Len(s) > 0 /\ IsSpace(CharAt(s, Len(s)))
    THEN RStrip(SubSeq(s, 1, Len(s) - 1)) ELSE s

\* Python: s.strip()
Strip(s) == RStrip(LStrip(s))

UpperChars == <<"A","B","C","D","E","F","G","H","I","J","K","L","M",
                "N","O","P","Q","R","S","T","U","V","W","X","Y","Z">>

LowerChars == <<"a","b","c","d","e","f","g","h","i","j","k","l","m",
                "n","o","p","q","r","s","t","u","v","w","x","y","z">>

UpperSet == {UpperChars[j] : j \in 1..26}

LowerSet == {LowerChars[j] : j \in 1..26}

LowerChar(c) ==
    IF c \in UpperSet THEN LowerChars[CHOOSE j \in 1..26 : UpperChars[j] = c] ELSE c

\* Python: s.lower(), character by character (by halves)
RECURSIVE Lower(_)
Lower(s) ==
    IF Len(s) = 0 THEN ""
    ELSE IF Len(s) = 1 THEN LowerChar(s)
    ELSE LET h == Len(s) \div 2
         IN  Lower(SubSeq(s, 1, h)) \o Lower(SubSeq(s, h + 1, Len(s)))

RECURSIVE JoinFrom(_, _, _)
JoinFrom(sep, xs, i) ==
    IF i > Len(xs) THEN ""
    ELSE IF i = Len(xs) THEN xs[i]
    ELSE xs[i] \o sep \o JoinFrom(sep, xs, i + 1)

\* Python: sep.join(xs)
Join(sep, xs) == JoinFrom(sep, xs, 1)

\* Python: s[-n:]
LastChars(s, n) == IF Len(s) <= n THEN s ELSE SubSeq(s, Len(s) - n + 1, Len(s))

IsDigit(c) == c \in {"0","1","2","3","4","5","6","7","8","9"}

IsLetter(c) == c \in UpperSet \/ c \in LowerSet

\* regex \w
IsWordChar(c) == IsLetter(c) \/ IsDigit(c) \/ c = "_"

\* regex \b at the gap before position i (between s[i-1] and s[i])
BoundaryAt(s, i) ==
    LET before == i > 1 /\ i - 1 <= Len(s) /\ IsWordChar(CharAt(s, i - 1))
        after  == i >= 1 /\ i <= Len(s) /\ IsWordChar(CharAt(s, i))
    IN  before # after

\* regex \bk\b matches at position i
WordAt(s, i, k) ==
    /\ i >= 1 /\ i + Len(k) - 1 <= Len(s)
    /\ SubSeq(s, i, i + Len(k) - 1) = k
    /\ BoundaryAt(s, i)
    /\ BoundaryAt(s, i + Len(k))

\* regex search for \bk\b
ContainsWord(s, k) == \E i \in 1..(Len(s) - Len(k) + 1) : WordAt(s, i, k)

(***************************************************************************)
(* app/config.py                                                           *)
(***************************************************************************)

CRISIS_CATEGORIES == {"flood", "fire", "earthquake", "storm", "landslide", "other"}

SEVERITY_LEVELS == {"low", "medium", "high"}

(***************************************************************************)
(* app/models/classifier.py : CrisisClassifier                             *)
(***************************************************************************)

\* re.search(r"\bwater\b.*\bbasement\b", lowered); "." does not match "\n"
WordThenWord(s, a, b) ==
    \E i \in 1..Len(s) :
        /\ WordAt(s, i, a)
        /\ \E j \in (i + Len(a))..Len(s) :
              /\ WordAt(s, j, b)
              /\ \A m \in (i + Len(a))..(j - 1) : CharAt(s, m) # "\n"

\* _apply_category_overrides trusting every model label other than "other"
ApplyCategoryOverridesTrusting(text, model_category) ==
    LET lowered == Lower(text)
        water_basement == \/ WordThenWord(lowered, "water", "basement")
                          \/ WordThenWord(lowered, "basement", "water")
    IN  IF \/ ContainsAny(lowered, {"flood", "flooded", "flooding"})
           \/ water_basement
           \/ (Contains(lowered, "water")
               /\ ContainsAny(lowered, {"house", "home", "apartment"}))
        THEN "flood"
        ELSE IF ContainsAny(lowered, {"heavy smoke", "thick smoke",
                    "smoke in my apartment", "smoke everywhere",
                    "smoke in the building", "smoke coming from"})
        THEN "fire"
        ELSE IF model_category # "other"
        THEN model_category
        ELSE IF ContainsAny(lowered, {"flood", "flooding", "water is rising",
                    "water rising", "river overflow"})
        THEN "flood"
        ELSE IF ContainsAny(lowered, {"earthquake", "tremor", "strong shaking",
                    "ground shaking"})
        THEN "earthquake"
        ELSE IF ContainsAny(lowered, {"fire", "burning", "wildfire",
                    "smoke everywhere"})
        THEN "fire"
        ELSE "other"

\* _apply_category_overrides asking the model before the lexical overrides
ApplyCategoryOverridesModelFirst(text, model_category) ==
    LET lowered == Lower(text)
        water_basement == \/ WordThenWord(lowered, "water", "basement")
                          \/ WordThenWord(lowered, "basement", "water")
    IN  IF model_category \in CRISIS_CATEGORIES /\ model_category # "other"
        THEN model_category
        ELSE IF \/ ContainsAny(lowered, {"flood", "flooded", "flooding"})
                \/ water_basement
                \/ (Contains(lowered, "water")
                    /\ ContainsAny(lowered, {"house", "home", "apartment"}))
        THEN "flood"
        ELSE IF ContainsAny(lowered, {"heavy smoke", "thick smoke",
                    "smoke in my apartment", "smoke everywhere",
                    "smoke in the building", "smoke coming from"})
        THEN "fire"
        ELSE IF ContainsAny(lowered, {"flood", "flooding", "water is rising",
                    "water rising", "river overflow"})
        THEN "flood"
        ELSE IF ContainsAny(lowered, {"earthquake", "tremor", "strong shaking",
                    "ground shaking"})
        THEN "earthquake"
        ELSE IF ContainsAny(lowered, {"fire", "burning", "wildfire",
                    "smoke everywhere"})
        THEN "fire"
        ELSE "other"

\* _apply_category_overrides(text, model_category)[0]
ApplyCategoryOverrides(text, model_category) ==
    LET lowered == Lower(text)
        water_basement == \/ WordThenWord(lowered, "water", "basement")
                          \/ WordThenWord(lowered, "basement", "water")
    IN  IF \/ ContainsAny(lowered, {"flood", "flooded", "flooding"})
           \/ water_basement
           \/ (Contains(lowered, "water")
               /\ ContainsAny(lowered, {"house", "home", "apartment"}))
        THEN "flood"
        ELSE IF ContainsAny(lowered, {"heavy smoke", "thick smoke",
                    "smoke in my apartment", "smoke everywhere",
                    "smoke in the building", "smoke coming from"})
        THEN "fire"
        ELSE IF model_category \in CRISIS_CATEGORIES /\ model_category # "other"
        THEN model_category
        ELSE IF ContainsAny(lowered, {"flood", "flooding", "water is rising",
                    "water rising", "river overflow"})
        THEN "flood"
        ELSE IF ContainsAny(lowered, {"earthquake", "tremor", "strong shaking",
                    "ground shaking"})
        THEN "earthquake"
        ELSE IF ContainsAny(lowered, {"fire", "burning", "wildfire",
                    "smoke everywhere"})
        THEN "fire"
        ELSE "other"

\* _apply_category_overrides(text, model_category)[1], the provenance of the
\* category: "model", "keyword_override" or "fallback"
CategorySource(text, model_category) ==
    LET lowered == Lower(text)
        water_basement == \/ WordThenWord(lowered, "water", "basement")
                          \/ WordThenWord(lowered, "basement", "water")
    IN  IF \/ ContainsAny(lowered, {"flood", "flooded", "flooding"})
           \/ water_basement
           \/ (Contains(lowered, "water")
               /\ ContainsAny(lowered, {"house", "home", "apartment"}))
        THEN "keyword_override"
        ELSE IF ContainsAny(lowered, {"heavy smoke", "thick smoke",
                    "smoke in my apartment", "smoke everywhere",
                    "smoke in the building", "smoke coming from"})
        THEN "keyword_override"
        ELSE IF model_category \in CRISIS_CATEGORIES /\ model_category # "other"
        THEN "model"
        ELSE IF ContainsAny(lowered, {"flood", "flooding", "water is rising",
                    "water rising", "river overflow", "earthquake", "tremor",
                    "strong shaking", "ground shaking", "fire", "burning",
                    "wildfire", "smoke everywhere"})
        THEN "keyword_override"
        ELSE "fallback"

\* high_keywords of _infer_severity
HighKeywords == {"trapped", "cannot breathe", "can't breathe", "unconscious",
                 "house destroyed", "building collapsed", "roof collapsed",
                 "severe bleeding", "heart attack", "no pulse"}

\* medium_keywords of _infer_severity
MediumKeywords == {"water rising", "water is rising", "rising water",
                   "road blocked", "roads are blocked", "cars are stuck",
                   "car is stuck", "injured", "injuries", "need help",
                   "need assistance", "cannot leave the building",
                   "can't leave the building"}

\* _infer_severity(text)
InferSeverity(text) ==
    LET lowered == Lower(text)
    IN  IF ContainsAny(lowered, HighKeywords) THEN "high"
        ELSE IF ContainsAny(lowered, MediumKeywords) THEN "medium"
        ELSE "low"

(***************************************************************************)
(* app/models/severity_llm.py : LLMSeverityModel                           *)
(***************************************************************************)

\* _rule_based_severity(text).severity
RuleBasedSeverity(text) ==
    LET t == Lower(text)
    IN  IF ContainsAny(t, {"unconscious", "not breathing", "no pulse", "cpr",
                "gunshot", "shooting", "explosion", "trapped", "collapsed",
                "heavy bleeding", "bleeding heavily", "cant get out",
                "can't get out"})
        THEN "high"
        ELSE IF (Contains(t, "fire") \/ Contains(t, "smoke"))
                /\ ContainsAny(t, {"people injured", "injured", "people collapsed"})
        THEN "high"
        ELSE "medium"

(***************************************************************************)
(* app/pipeline.py : TriagePipeline                                        *)
(***************************************************************************)

\* no universal high-risk cue
HighAnyNone == {}

\* high_any of _adjust_severity
HighAny == {"gunshot", "gunshots", "shots fired", "active shooter", "shooter",
            "armed", "stabbing", "stabbed", "knife", "attack",
            "bleeding heavily", "heavy bleeding", "blood everywhere",
            "not breathing", "no pulse", "doing cpr", "trying cpr",
            "fire inside", "smoke is filling", "smoke filling",
            "cannot reach the exit", "can't reach the exit",
            "hallway is burning", "trapped inside", "can't get out",
            "cannot get out"}

\* a severity read off the category alone
AdjustSeverityByCategory(category, base_severity, text) ==
    IF category = "other" THEN "low" ELSE "high"

\* an adjustment that lets the flood rule settle the severity at medium
AdjustSeverityFloodMedium(category, base_severity, text) ==
    IF category = "flood" /\ Contains(Lower(text), "flood") THEN "medium"
    ELSE IF base_severity \in SEVERITY_LEVELS THEN base_severity
    ELSE "medium"

\* _adjust_severity(category, base_severity, text); the trapped_terms entry
\* written with a typographic apostrophe cannot occur in the ASCII texts
AdjustSeverity(category, base_severity, text) ==
    LET lowered == Lower(text)
        s0 == IF base_severity = "" THEN "medium" ELSE base_severity
        s1 == IF ContainsAny(lowered, HighAny) THEN "high" ELSE s0
        floodText == category = "flood"
                     /\ ContainsAny(lowered, {"flood", "flooding",
                            "water is rising", "water rising",
                            "water rising quickly"})
        s2 == IF floodText /\ s1 = "low" THEN "medium" ELSE s1
        s3 == IF floodText
                 /\ ContainsAny(lowered, {"trapped", "swept", "swept away",
                        "cannot breathe", "can't breathe", "unconscious"})
              THEN "high" ELSE s2
        s4 == IF category = "flood"
                 /\ ContainsAny(lowered, {"stuck", "trapped", "cannot get out",
                        "can't get out", "cannot exit", "can't exit",
                        "we can't leave"})
                 /\ ContainsAny(lowered, {"my son", "my daughter", "my kid",
                        "my child", "children", "people are trapped"})
              THEN "high" ELSE s3
        s5 == IF ContainsAny(lowered, {"heavy smoke", "thick smoke",
                    "dense smoke", "hard to breathe", "cant breathe",
                    "can't breathe", "struggling to breathe", "coughing badly",
                    "choking on smoke"})
              THEN "high" ELSE s4
    IN  IF s5 \notin {"low", "medium", "high"} THEN "medium" ELSE s5

\* a merge that adopts the secondary estimate
MergeSeverityAdopt(severity, llm_sev) == llm_sev

\* a merge that only knows the raise to high
MergeSeverityHighOnly(severity, llm_sev) ==
    IF llm_sev = "high" THEN "high" ELSE severity

\* the merge of the secondary estimate in TriagePipeline.run
MergeSeverity(severity, llm_sev) ==
    IF llm_sev = "high" /\ severity # "high" THEN "high"
    ELSE IF severity = "low" /\ llm_sev = "medium" THEN "medium"
    ELSE severity

(***************************************************************************)
(* app/models/location_extractor.py : LocationExtractor                    *)
(***************************************************************************)

\* the street qualifiers of the address pattern, lowercased (re.IGNORECASE)
StreetQualifiers == {"street", "st", "avenue", "ave", "road", "rd", "boulevard",
                     "blvd", "lane", "ln", "drive", "dr"}

\* last index of the run of digits that starts at i (i - 1 when s[i] is none)
RECURSIVE DigitRunEnd(_, _)
DigitRunEnd(s, i) ==
    IF i <= Len(s) /\ IsDigit(CharAt(s, i)) THEN DigitRunEnd(s, i + 1) ELSE i - 1

\* last index of the run of whitespace that starts at i
RECURSIVE SpaceRunEnd(_, _)
SpaceRunEnd(s, i) ==
    IF i <= Len(s) /\ IsSpace(CharAt(s, i)) THEN SpaceRunEnd(s, i + 1) ELSE i - 1

\* last index of the run of [A-Za-z\s] that starts at i
RECURSIVE AlphaSpaceRunEnd(_, _)
AlphaSpaceRunEnd(s, i) ==
    IF i <= Len(s) /\ (IsLetter(CharAt(s, i)) \/ IsSpace(CharAt(s, i)))
    THEN AlphaSpaceRunEnd(s, i + 1) ELSE i - 1

\* the ends e for which the address pattern
\*   \b \d{1,5} \s+ [A-Za-z][A-Za-z\s]* \s+ (qualifier) \b
\* matches s[i..e]
AddressEnds(s, i) ==
    IF ~(IsDigit(CharAt(s, i)) /\ BoundaryAt(s, i)) THEN {}
    ELSE LET dEnd == DigitRunEnd(s, i)
             spEnd == SpaceRunEnd(s, dEnd + 1)
             p == spEnd + 1
         IN  IF dEnd - i + 1 > 5 \/ spEnd <= dEnd \/ p > Len(s)
                \/ ~IsLetter(CharAt(s, p))
             THEN {}
             ELSE LET qEnd == AlphaSpaceRunEnd(s, p)
                  IN  {e \in (p + 2)..qEnd :
                          /\ BoundaryAt(s, e + 1)
                          /\ \E q \in StreetQualifiers :
                                LET t == e - Len(q) + 1
                                IN  /\ t >= p + 2
                                    /\ IsSpace(CharAt(s, t - 1))
                                    /\ Lower(SubSeq(s, t, e)) = q}

\* _extract_address(text): leftmost start, greedy (longest) end
ExtractAddress(text) ==
    LET starts == {i \in 1..Len(text) : AddressEnds(text, i) # {}}
    IN  IF starts = {} THEN ""
        ELSE LET i == CHOOSE a \in starts : \A b \in starts : a <= b
                 ends == AddressEnds(text, i)
                 e == CHOOSE a \in ends : \A b \in ends : a >= b
             IN  Strip(SubSeq(text, i, e))

\* [^.,;]
NotStop(c) == c \notin {".", ",", ";"}

\* last index of the run of [^.,;] that starts at i
RECURSIVE NotStopRunEnd(_, _)
NotStopRunEnd(s, i) ==
    IF i <= Len(s) /\ NotStop(CharAt(s, i)) THEN NotStopRunEnd(s, i + 1) ELSE i - 1

\* re.search(prep + "([^.,;]+)", s).group(0), "" when there is no match
PrepMatch(s, prep) ==
    LET n == Len(prep)
        starts == {i \in 1..(Len(s) - n) :
                      SubSeq(s, i, i + n - 1) = prep /\ NotStop(CharAt(s, i + n))}
    IN  IF starts = {} THEN ""
        ELSE LET i == CHOOSE a \in starts : \A b \in starts : a <= b
             IN  SubSeq(s, i, NotStopRunEnd(s, i + n))

GeoTokens == {"street", "st ", "st.", "avenue", "ave", "road", "rd", "boulevard",
              "blvd", "lane", "ln", "drive", "dr", "downtown", "city", "center",
              "centre", "plaza", "square", "park", "town", "mall", "station",
              "airport"}

\* extract(text) without the geographic token filter of line 71
ExtractLocationUnfiltered(text) ==
    LET address == ExtractAddress(text)
        lowered == Lower(text)
        nearM == PrepMatch(lowered, "near ")
        atM == PrepMatch(lowered, "at ")
        inM == PrepMatch(lowered, "in ")
        candidate == IF nearM # "" THEN nearM ELSE IF atM # "" THEN atM ELSE inM
    IN  IF address # "" THEN address
        ELSE IF Contains(lowered, "mall") THEN "the mall"
        ELSE IF Contains(lowered, "station") THEN "the station"
        ELSE IF Contains(lowered, "airport") THEN "the airport"
        ELSE Strip(candidate)

\* extract(text) trying the patterns in turn until one captures a geographic
\* token
ExtractLocationAnyPattern(text) ==
    LET address == ExtractAddress(text)
        lowered == Lower(text)
        nearM == PrepMatch(lowered, "near ")
        atM == PrepMatch(lowered, "at ")
        inM == PrepMatch(lowered, "in ")
    IN  IF address # "" THEN address
        ELSE IF Contains(lowered, "mall") THEN "the mall"
        ELSE IF Contains(lowered, "station") THEN "the station"
        ELSE IF Contains(lowered, "airport") THEN "the airport"
        ELSE IF ContainsAny(nearM, GeoTokens) THEN Strip(nearM)
        ELSE IF ContainsAny(atM, GeoTokens) THEN Strip(atM)
        ELSE IF ContainsAny(inM, GeoTokens) THEN Strip(inM)
        ELSE ""

\* extract(text)
ExtractLocation(text) ==
    LET address == ExtractAddress(text)
        lowered == Lower(text)
        nearM == PrepMatch(lowered, "near ")
        atM == PrepMatch(lowered, "at ")
        inM == PrepMatch(lowered, "in ")
        candidate == IF nearM # "" THEN nearM ELSE IF atM # "" THEN atM ELSE inM
    IN  IF address # "" THEN address
        ELSE IF Contains(lowered, "mall") THEN "the mall"
        ELSE IF Contains(lowered, "station") THEN "the station"
        ELSE IF Contains(lowered, "airport") THEN "the airport"
        ELSE IF candidate = "" THEN ""
        ELSE IF ContainsAny(candidate, GeoTokens) THEN Strip(candidate)
        ELSE ""

(***************************************************************************)
(* app/models/rag.py : IncidentRAG                                         *)
(***************************************************************************)

\* self.playbook
Playbook ==
    [earthquake |->
        "If you are indoors, drop, cover, and hold on. Stay away from windows and heavy objects. After shaking stops, evacuate to open space and check for injuries and gas leaks.",
     flood |->
        "Move to higher ground immediately. Avoid walking or driving through flood waters. Do not enter flooded buildings until authorities declare them safe.",
     hurricane_typhoon_cyclone |->
        "Stay inside, away from windows. Follow local evacuation orders. Avoid coastal areas and be prepared for flooding and power loss.",
     tornado |->
        "Go to an interior room on the lowest floor, away from windows. If outside, lie flat in a low spot and cover your head.",
     landslide |->
        "Move away from the path of the slide to higher ground. Stay clear of valleys and river channels.",
     fire |->
        "Evacuate immediately using stairs, not elevators. Stay low under smoke and close doors behind you.",
     crash_collapse |->
        "Call emergency services. Keep a safe distance from unstable structures and watch for falling debris.",
     explosion |->
        "Get to a safe location, away from glass and damaged buildings. Do not touch suspicious objects. Follow instructions from authorities.",
     epidemic |->
        "Follow public health guidance. Maintain hygiene, wear masks if advised, and avoid crowded areas.",
     other |->
        "Describe the incident clearly to emergency services. Follow local authority instructions and prioritize your safety."]

\* a lookup without the fallback entry
RetrieveExact(category) ==
    [category |-> category,
     guidance |-> IF category \in DOMAIN Playbook THEN Playbook[category] ELSE ""]

\* retrieve(category): the RAGResult
Retrieve(category) ==
    [category |-> category,
     guidance |-> IF category \in DOMAIN Playbook THEN Playbook[category]
                  ELSE Playbook["other"]]

(***************************************************************************)
(* app/models/summarizer.py : ChatSummarizer                               *)
(***************************************************************************)

\* the value that stands for Python's None where a text is expected
None == "<None>"

\* a remote summary shorter than 10 characters is a failure
MinSummaryLen == 10

\* summarize(user_messages) as _build_summary sees it; answer is the remote
\* service's behaviour: kind "error" when the request or the JSON parsing
\* raises (summarize returns None), kind "nonstring" when the "response" value
\* has no strip() (line 50 raises and the except clause of _build_summary,
\* agent.py:96-99, turns it into None), otherwise kind "body" with the
\* "response" text of the body
Summarize(user_messages, answer) ==
    IF user_messages = <<>> THEN None
    ELSE IF answer.kind # "body" THEN None
    ELSE LET summary == Strip(answer.response)
         IN  IF Len(summary) < MinSummaryLen THEN None ELSE summary

(***************************************************************************)
(* app/agent.py : TriageAgent helpers                                      *)
(***************************************************************************)

\* [m.get("content", "") for m in messages
\*    if m.get("role") == "user" and m.get("content")]
UserTexts(msgs) ==
    LET keep(m) == m.role = "user" /\ m.content # ""
        F[i \in 0..Len(msgs)] ==
            IF i = 0 THEN <<>>
            ELSE IF keep(msgs[i]) THEN Append(F[i - 1], msgs[i].content)
            ELSE F[i - 1]
    IN  F[Len(msgs)]

\* _latest_user_message(messages): its index, 0 when there is none
LatestUserIndex(msgs) ==
    LET idx == {i \in 1..Len(msgs) : msgs[i].role = "user"}
    IN  IF idx = {} THEN 0 ELSE CHOOSE i \in idx : \A j \in idx : j <= i

GreetingKeywords == {"hi", "hello", "hey", "good morning", "good evening",
                     "good afternoon"}

EmergencyKeywords == {"fire", "smoke", "flood", "water rising", "earthquake",
                      "gunshot", "bleeding", "not breathing", "no pulse",
                      "trapped", "accident", "explosion", "storm", "landslide"}

\* _is_greeting without the emergency keyword test of line 85
IsGreetingByPrefix(text) ==
    LET t == Lower(Strip(text))
    IN  /\ text # ""
        /\ t # ""
        /\ \E g \in GreetingKeywords : t = g \/ StartsWith(t, g \o " ")

\* _is_greeting(text)
IsGreeting(text) ==
    LET t == Lower(Strip(text))
    IN  /\ text # ""
        /\ t # ""
        /\ \E g \in GreetingKeywords : t = g \/ StartsWith(t, g \o " ")
        /\ ~ContainsAny(t, EmergencyKeywords)

\* the local fallback keeps the trailing 400 characters
SummaryTail == 400

\* _build_summary with a local fallback that keeps the whole joined text
BuildSummaryUncut(msgs, answer) ==
    LET user_texts == UserTexts(msgs)
        llm_summary == Summarize(user_texts, answer)
        fallback == Strip(Join(" ", user_texts))
    IN  IF llm_summary # None /\ llm_summary # "" THEN Strip(llm_summary)
        ELSE IF fallback # "" THEN fallback
        ELSE "User reported an issue."

\* _build_summary(messages)
BuildSummary(msgs, answer) ==
    LET user_texts == UserTexts(msgs)
        llm_summary == Summarize(user_texts, answer)
        fallback == Strip(Join(" ", user_texts))
    IN  IF llm_summary # None /\ llm_summary # "" THEN Strip(llm_summary)
        ELSE IF fallback # "" THEN LastChars(fallback, SummaryTail)
        ELSE "User reported an issue."

PeopleNouns == {"people", "persons", "kids", "children", "adults", "workers",
                "passengers"}

\* re.search(r"\b\d+\s+(people|...)\b", text, flags=re.I)
CountPattern(s) ==
    \E i \in 1..Len(s) :
        /\ IsDigit(CharAt(s, i))
        /\ BoundaryAt(s, i)
        /\ LET dEnd == DigitRunEnd(s, i)
               spEnd == SpaceRunEnd(s, dEnd + 1)
           IN  /\ spEnd > dEnd
               /\ \E w \in PeopleNouns :
                    /\ spEnd + Len(w) <= Len(s)
                    /\ SubSeq(s, spEnd + 1, spEnd + Len(w)) = w
                    /\ BoundaryAt(s, spEnd + Len(w) + 1)

\* _people_known(text)
PeopleKnown(text) ==
    LET s == Lower(text)
    IN  /\ text # ""
        /\ \/ CountPattern(s)
           \/ \E k \in {"alone", "only me", "by myself", "just me"} : ContainsWord(s, k)

SafeCues == {"i'm safe", "im safe", "we are safe", "away from danger",
             "out of danger", "outside now", "safe now", "ok now"}

UnsafeCues == {"not safe", "still inside", "still in danger", "still here",
               "can't get out", "cannot get out", "trapped", "stuck"}

\* _safety_known(text): "True", "False" or None
SafetyKnown(text) ==
    LET low == Lower(text)
    IN  IF text = "" THEN None
        ELSE IF ContainsAny(low, SafeCues) THEN "True"
        ELSE IF ContainsAny(low, UnsafeCues) THEN "False"
        ELSE None

(***************************************************************************)
(* app/models/reply_llm.py : LLMReplyModel                                 *)
(***************************************************************************)

\* _build_prompt looks at the last 6 messages
RecentWindow == 6

\* a reply shorter than 20 characters is a failure
MinReplyLen == 20

\* messages[-6:] if len(messages) > 6 else messages
Recent(msgs) ==
    IF Len(msgs) > RecentWindow
    THEN SubSeq(msgs, Len(msgs) - RecentWindow + 1, Len(msgs))
    ELSE msgs

\* last_user of _build_prompt: the content of the last user message with
\* content among the recent messages, "" when there is none
RecentLastUser(msgs) ==
    LET recent == Recent(msgs)
        idx == {i \in 1..Len(recent) : recent[i].role = "user" /\ recent[i].content # ""}
    IN  IF idx = {} THEN ""
        ELSE recent[CHOOSE i \in idx : \A j \in idx : j <= i].content

SafetyConfirmedPhrases == {"i am safe", "i'm safe", "we are safe", "we're safe",
                           "we are both safe", "safe upstairs", "safe now",
                           "away from danger", "out of danger",
                           "away from the danger"}

\* safety_confirmed of _build_prompt, for ctx.summary = summary and the last
\* user message last_user of the recent messages
SafetyConfirmed(summary, last_user) ==
    ContainsAny(Lower(summary \o " " \o last_user), SafetyConfirmedPhrases)

\* effective_safety of _build_prompt; ctx.safety_confirmed holds the value of
\* safety_confirmed for the messages and the summary of the context
EffectiveSafety(cx) == cx.safety_known \/ cx.safety_confirmed

\* triage_complete of _build_prompt
PromptTriageComplete(cx) ==
    cx.location_known /\ cx.people_known /\ EffectiveSafety(cx)

LocationQuestion ==
    "Where exactly are you right now? Please give an address or nearby landmark."

PeopleQuestion == "How many people, including you, are affected or injured?"

SafetyQuestion ==
    "Are you currently in a safe place away from the immediate danger, or still close to the fire/flood/incident?"

\* followup_question of _build_prompt
FollowupQuestion(cx) ==
    IF PromptTriageComplete(cx) THEN None
    ELSE IF ~cx.location_known THEN LocationQuestion
    ELSE IF ~cx.people_known THEN PeopleQuestion
    ELSE IF ~EffectiveSafety(cx) THEN SafetyQuestion
    ELSE None

\* generate_reply setting the latch on every success, complete or not
GenerateReplyLatchOnSuccess(cx, answer) ==
    LET reply == IF answer.kind = "body" THEN Strip(answer.response) ELSE ""
        ok == answer.kind = "body" /\ reply # "" /\ Len(reply) >= MinReplyLen
    IN  [raised |-> answer.kind = "nonstring",
         ok |-> ok,
         text |-> IF ok THEN reply ELSE "",
         triage_complete |-> ok /\ PromptTriageComplete(cx),
         sets |-> ok]

\* generate_reply setting the latch before it looks at the answer
GenerateReplyLatchEarly(cx, answer) ==
    LET triage_complete == PromptTriageComplete(cx)
        reply == IF answer.kind = "body" THEN Strip(answer.response) ELSE ""
        ok == answer.kind = "body" /\ reply # "" /\ Len(reply) >= MinReplyLen
    IN  [raised |-> answer.kind = "nonstring",
         ok |-> ok,
         text |-> IF ok THEN reply ELSE "",
         triage_complete |-> ok /\ triage_complete,
         sets |-> triage_complete]

\* generate_reply(messages, ctx) when the remote generator behaves as answer:
\* raised, the ReplyResult (None when ~ok), and whether it set
\* ctx.triage_complete and self.triage_complete
GenerateReply(cx, answer) ==
    LET triage_complete == PromptTriageComplete(cx)
        reply == IF answer.kind = "body" THEN Strip(answer.response) ELSE ""
        ok == answer.kind = "body" /\ reply # "" /\ Len(reply) >= MinReplyLen
    IN  [raised |-> answer.kind = "nonstring",
         ok |-> ok,
         text |-> IF ok THEN reply ELSE "",
         triage_complete |-> ok /\ triage_complete,
         sets |-> ok /\ triage_complete]

(***************************************************************************)
(* Inputs: the histories callers post and the behaviours of the remote     *)
(* services                                                                *)
(***************************************************************************)

\* a conversation holds at most MaxTurns messages
MaxTurns == 2

User(c) == [role |-> "user", content |-> c]

Assistant(c) == [role |-> "assistant", content |-> c]

\* the messages a caller may append to a history (dialogue scenarios)
Turns == {User("hi"),
          User("hey there"),
          User("hello there is a fire"),
          User("3 people at the mall"),
          User("i am safe"),
          User("we are safe now"),
          Assistant("How can I help?")}

\* 55 characters without any cue
Filler == "the lights went out on our block and nobody knows why. "

\* a long report without any cue (440 characters)
LongReport == Filler \o Filler \o Filler \o Filler \o Filler \o Filler \o Filler \o Filler

\* the messages a caller may append to a history (severity scenarios)
SeverityTurns == {User("we are trapped"),
                  User("we need help"),
                  User("the power is out"),
                  User(LongReport)}

\* the messages a caller may append to a history (category scenarios): the
\* flood override, a smoke phrase, sweep keywords for earthquake, fire and
\* flood, a universal high-risk report and a report without any keyword
CategoryTurns == {User("The basement flooded."),
                  User("Smoke everywhere!"),
                  User("strong shaking"),
                  User("something is burning"),
                  User("water is rising, a car was swept away"),
                  User("Gunshots, someone is bleeding heavily"),
                  User("a tree fell")}

\* the messages a caller may append to a history (report scenarios): a
\* prepositional phrase without and with a geographic token, a street
\* address, an assistant turn and a long report
ReportTurns == {User("I am in danger"),
                User("we are near the park"),
                User("look at this, we are in the city."),
                User("fire at 12 Main Street"),
                Assistant("Where are you?"),
                User(LongReport)}

\* the messages a caller may append to a history (safety scenarios): location,
\* people count and an unsafe state in one message, a denial that holds the
\* words of a safety_confirmed phrase, an unsafe state alone
SafetyTurns == {User("3 people trapped at the mall"),
               User("we are not away from the danger"),
               User("we are stuck"),
               Assistant("Are you safe?")}

HistoriesOver(T) == UNION {[1..n -> T] : n \in 0..MaxTurns}

Histories ==
    HistoriesOver(Turns) \cup HistoriesOver(SeverityTurns)
    \cup HistoriesOver(CategoryTurns) \cup HistoriesOver(ReportTurns)
    \cup HistoriesOver(SafetyTurns)

\* The remote summarizer's behaviour for one request: [kind |-> "error"] when
\* the request or the JSON parsing raises, otherwise [kind |-> "body"] with the
\* "response" text of the body
SumError == [kind |-> "error", response |-> ""]

SumAnswers == {SumError,
               [kind |-> "body", response |-> "Caller reports an incident."]}

\* the summarizer's behaviours in the report scenarios: the request raises,
\* the "response" value is not a string (strip() raises in summarize and
\* _build_summary catches it), the text is empty or too short, or it is a
\* summary
ReportSumAnswers == {SumError,
                     [kind |-> "nonstring", response |-> ""],
                     [kind |-> "body", response |-> ""],
                     [kind |-> "body", response |-> " unclear "],
                     [kind |-> "body", response |-> "Caller reports an incident."]}

\* the "severity" value of the remote severity estimator's reply; "" stands for
\* a failed request, a status other than 200 or an unparsable body
SevAnswers == {"", "low", "medium", "high"}

\* labels of the statistical model
Labels == {"other", "storm"}

\* labels of the statistical model in the category scenarios: "tornado" is a
\* label outside CRISIS_CATEGORIES
CategoryLabels == {"other", "storm", "tornado"}

ModelLabels == Labels \cup CategoryLabels

\* The remote generator's behaviour for one request:
\*   [kind |-> "exception"]   requests.post raises (error, timeout)
\*   [kind |-> "status"]      a status other than 200
\*   [kind |-> "unparsable"]  resp.json() raises
\*   [kind |-> "nonstring"]   the "response" value is not a string: strip() raises
\*   [kind |-> "body"]        status 200, "response" is the text (blank, too
\*                            short, or a reply)
GenAnswers == {[kind |-> "exception", response |-> ""],
               [kind |-> "status", response |-> ""],
               [kind |-> "unparsable", response |-> ""],
               [kind |-> "nonstring", response |-> ""],
               [kind |-> "body", response |-> "  "],
               [kind |-> "body", response |-> "OK."],
               [kind |-> "body", response |-> "Thank you, help is on the way. "]}

\* a service that the call did not reach gave no answer
NotInvoked == [kind |-> "not_invoked", response |-> ""]

\* the behaviours of the services in the dialogue scenarios
DialogueServices == [sum |-> SumAnswers, sev |-> {"", "high"}, label |-> {"other"},
                     gen |-> GenAnswers]

\* the behaviours of the services in the severity scenarios: the summarizer
\* and the generator are down
SeverityServices == [sum |-> {SumError}, sev |-> SevAnswers, label |-> Labels,
                     gen |-> {[kind |-> "exception", response |-> ""]}]

\* the behaviours of the services in the category scenarios: the summarizer
\* and the generator are down, the estimator may answer a word that is not a
\* severity level
CategoryServices == [sum |-> {SumError}, sev |-> {"", "low", "high", "critical"},
                     label |-> CategoryLabels,
                     gen |-> {[kind |-> "exception", response |-> ""]}]

\* the behaviours of the services in the report scenarios: the estimator and
\* the generator are down
ReportServices == [sum |-> ReportSumAnswers, sev |-> {""}, label |-> {"other"},
                   gen |-> {[kind |-> "exception", response |-> ""]}]

(***************************************************************************)
(* The text functions tabulated over the texts the histories produce       *)
(***************************************************************************)

\* f as an explicit table, evaluated once
Tabulate(f) == f @@ <<>>

\* conversation_text of _build_agent_result
ConversationText(msgs) == Strip(Join(" ", UserTexts(msgs)))

\* last_user_text of _build_agent_result
LastUserText(msgs) ==
    LET last == LatestUserIndex(msgs)
    IN  IF last # 0 THEN msgs[last].content ELSE ConversationText(msgs)

\* CrisisClassifier.classify(text) when the statistical model predicts label
Classify(text, label) ==
    [category |-> ApplyCategoryOverrides(text, label), severity |-> InferSeverity(text)]

SummaryTexts == {BuildSummary(h, a) : h \in Histories, a \in SumAnswers \cup ReportSumAnswers}

ConversationTexts == {ConversationText(h) : h \in Histories}

LastUserTexts == {LastUserText(h) : h \in Histories}

\* the pairs (ctx.summary, last user message) that _build_prompt meets
SafetyTexts ==
    {<<BuildSummary(h, a), RecentLastUser(h)>> : h \in Histories, a \in SumAnswers \cup ReportSumAnswers}

ClassifyOf == Tabulate([t \in SummaryTexts, l \in ModelLabels |-> Classify(t, l)])

AdjustSeverityOf ==
    Tabulate([t \in SummaryTexts, l \in ModelLabels |->
                AdjustSeverity(ClassifyOf[t, l].category, ClassifyOf[t, l].severity, t)])

RuleBasedSeverityOf == Tabulate([t \in SummaryTexts |-> RuleBasedSeverity(t)])

ExtractLocationOf == Tabulate([t \in SummaryTexts |-> ExtractLocation(t)])

PeopleKnownOf == Tabulate([t \in ConversationTexts |-> PeopleKnown(t)])

SafetyKnownOf == Tabulate([t \in ConversationTexts |-> SafetyKnown(t)])

IsGreetingOf == Tabulate([t \in LastUserTexts |-> IsGreeting(t)])

SafetyConfirmedOf == Tabulate([p \in SafetyTexts |-> SafetyConfirmed(p[1], p[2])])

(***************************************************************************)
(* app/pipeline.py : TriagePipeline.run                                    *)
(***************************************************************************)

DefaultGuidance ==
    "Stay safe, avoid unnecessary risk, follow instructions from local authorities, and contact emergency services in urgent situations."

\* _summarize_text(text)
SummarizeText(text) == IF Strip(text) # "" THEN Strip(text) ELSE "User reported an issue."

\* IncidentRAG (rag.py) defines __init__ and retrieve only; the method
\* generate_guidance that TriagePipeline.run calls on it does not exist
RagHasGenerateGuidance == FALSE

\* infer(text).severity; answer is the "severity" value parsed from the remote
\* reply, or any other string when the request, the status or the parsing fails
InferOf(text, answer) ==
    IF answer \in {"low", "medium", "high"} THEN answer ELSE RuleBasedSeverityOf[text]

\* run(text, summary, last_user_text) of a pipeline built with use_rag = rag;
\* label is the statistical model's label, sev the secondary estimator's
\* answer.  raised: the guidance step raised AttributeError.
PipelineRun(rag, text, summary, label, sev) ==
    LET summary_text == IF summary # "" THEN summary ELSE SummarizeText(text)
        cls_result == ClassifyOf[summary_text, label]
        adjusted == AdjustSeverityOf[summary_text, label]
        llm_sev == InferOf(summary_text, sev)
        severity == MergeSeverity(adjusted, llm_sev)
        location_hint == Strip(ExtractLocationOf[summary_text])
    IN  [raised |-> rag /\ ~RagHasGenerateGuidance,
         category |-> cls_result.category,
         adjusted |-> adjusted,
         llm_sev |-> llm_sev,
         severity |-> severity,
         location |-> location_hint,
         guidance |-> DefaultGuidance,
         summary |-> summary_text]

(***************************************************************************)
(* app/agent.py : TriageAgent._build_agent_result                          *)
(***************************************************************************)

GreetingReply ==
    "Hi, I'm an emergency triage assistant. Please describe what is happening and where you are, so I can help assess how urgent it is."

\* no closing sentence
ClosingReplyEmpty == ""

ClosingReply ==
    "Your report has already been submitted. Stay safe until responders arrive."

\* a templated sentence that restates the severity only
FallbackReplySeverityOnly(severity, category) ==
    "Understood. This looks like a " \o severity \o " severity situation. "
    \o DefaultGuidance

\* the templated sentence that replaces a missing generated reply
FallbackReply(severity, category) ==
    "Understood. This looks like a " \o severity \o " severity " \o category
    \o " situation. Based on your description, this appears to be a "
    \o severity \o " severity " \o category \o " situation. "
    \o DefaultGuidance

FallbackReplyOf ==
    Tabulate([sv \in SEVERITY_LEVELS, c \in CRISIS_CATEGORIES |-> FallbackReply(sv, c)])

\* the templated sentence for any severity and category words
FallbackReplyFor(severity, category) ==
    IF <<severity, category>> \in DOMAIN FallbackReplyOf
    THEN FallbackReplyOf[severity, category]
    ELSE FallbackReply(severity, category)

NoResult == [status |-> "none", reply |-> "", category |-> "", severity |-> "",
             location |-> "", guidance |-> "", summary |-> ""]

NoCtx == [location_known |-> FALSE, people_known |-> FALSE, safety_known |-> FALSE,
          triage_complete |-> FALSE]

NoTurn == [adjusted |-> None, llm_sev |-> None, severity |-> None,
           path |-> "none", computed |-> FALSE, followup |-> None]

NoAnswers == [sum |-> NotInvoked, sev |-> None, label |-> None, gen |-> NotInvoked]

\* the reply chosen without the latch test of line 164
ChooseReplyWithoutLatch(greeting, latch0, cx, answer, severity, category) ==
    LET gr == GenerateReply(cx, answer)
        generated == ~greeting /\ ~gr.raised /\ gr.ok /\ gr.text # ""
    IN  [text |-> IF greeting THEN GreetingReply
                  ELSE IF generated THEN gr.text
                  ELSE FallbackReplyFor(severity, category),
         path |-> IF greeting THEN "greeting"
                  ELSE IF generated THEN "generated"
                  ELSE "fallback",
         invoked |-> ~greeting,
         computed |-> ~greeting /\ PromptTriageComplete(cx),
         followup |-> IF ~greeting THEN FollowupQuestion(cx) ELSE None,
         sets |-> ~greeting /\ ~gr.raised /\ gr.sets]

\* the reply chosen when the latch is tested before the greeting
ChooseReplyLatchFirst(greeting, latch0, cx, answer, severity, category) ==
    LET invoked == ~greeting /\ ~latch0
        gr == GenerateReply(cx, answer)
        generated == invoked /\ ~gr.raised /\ gr.ok /\ gr.text # ""
    IN  [text |-> IF latch0 THEN ClosingReply
                  ELSE IF greeting THEN GreetingReply
                  ELSE IF generated THEN gr.text
                  ELSE FallbackReplyFor(severity, category),
         path |-> IF latch0 THEN "latch"
                  ELSE IF greeting THEN "greeting"
                  ELSE IF generated THEN "generated"
                  ELSE "fallback",
         invoked |-> invoked,
         computed |-> invoked /\ PromptTriageComplete(cx),
         followup |-> IF invoked THEN FollowupQuestion(cx) ELSE None,
         sets |-> invoked /\ ~gr.raised /\ gr.sets]

\* The reply chosen by _build_agent_result (lines 159-188) for the context cx
\* when the latest user turn is (not) a greeting, the latch is latch0, the
\* remote generator behaves as answer and the pipeline found severity and
\* category: the reply text, the path taken, the values _build_prompt computed
\* (when generate_reply was called) and whether the call set
\* ctx.triage_complete and the latch.
ChooseReply(greeting, latch0, cx, answer, severity, category) ==
    LET invoked == ~greeting /\ ~latch0
        gr == GenerateReply(cx, answer)
        generated == invoked /\ ~gr.raised /\ gr.ok /\ gr.text # ""
    IN  [text |-> IF greeting THEN GreetingReply
                  ELSE IF latch0 THEN ClosingReply
                  ELSE IF generated THEN gr.text
                  ELSE FallbackReplyFor(severity, category),
         path |-> IF greeting THEN "greeting"
                  ELSE IF latch0 THEN "latch"
                  ELSE IF generated THEN "generated"
                  ELSE "fallback",
         invoked |-> invoked,
         computed |-> invoked /\ PromptTriageComplete(cx),
         followup |-> IF invoked THEN FollowupQuestion(cx) ELSE None,
         sets |-> invoked /\ ~gr.raised /\ gr.sets]

\* a context that takes the location as known whatever the pipeline extracted
BuildContextLocationAssumed(msgs, pr, conversation_text) ==
    [location_known |-> TRUE,
     people_known |-> PeopleKnownOf[conversation_text],
     safety_known |-> SafetyKnownOf[conversation_text] = "True",
     triage_complete |-> FALSE,
     safety_confirmed |-> SafetyConfirmedOf[<<pr.summary, RecentLastUser(msgs)>>]]

\* the LLMReplyContext that _build_agent_result builds (lines 142-152) from the
\* pipeline result pr and the conversation text; safety_confirmed holds the
\* value _build_prompt computes for the messages and the summary
BuildContext(msgs, pr, conversation_text) ==
    [location_known |-> pr.location # "",
     people_known |-> PeopleKnownOf[conversation_text],
     safety_known |-> SafetyKnownOf[conversation_text] = "True",
     triage_complete |-> FALSE,
     safety_confirmed |-> SafetyConfirmedOf[<<pr.summary, RecentLastUser(msgs)>>]]

\* the answers a call consumed: the summarizer is called when there is a user
\* text, the generator when generate_reply is reached
Used(msgs, ans, gen_invoked) ==
    [sum |-> IF UserTexts(msgs) = <<>> THEN NotInvoked ELSE ans.sum,
     sev |-> ans.sev,
     label |-> ans.label,
     gen |-> IF gen_invoked THEN ans.gen ELSE NotInvoked]

\* _build_agent_result dropping the guidance when the latch is set
ComposeLatchedGuidance(latch0, msgs, ans, pr, cx, rp) ==
    [result |-> [status |-> "returned", reply |-> rp.text,
                 category |-> pr.category, severity |-> pr.severity,
                 location |-> pr.location,
                 guidance |-> IF latch0 THEN "" ELSE pr.guidance,
                 summary |-> pr.summary],
     ctx |-> [location_known |-> cx.location_known,
              people_known |-> cx.people_known,
              safety_known |-> cx.safety_known,
              triage_complete |-> rp.sets],
     turn |-> [adjusted |-> pr.adjusted, llm_sev |-> pr.llm_sev,
               severity |-> pr.severity, path |-> rp.path,
               computed |-> rp.computed, followup |-> rp.followup],
     latch |-> latch0 \/ rp.sets,
     used |-> Used(msgs, ans, rp.invoked)]

\* _build_agent_result after pipeline.run returned pr (lines 142-197); cx is
\* the context, rp the reply chosen
Compose(latch0, msgs, ans, pr, cx, rp) ==
    [result |-> [status |-> "returned", reply |-> rp.text,
                 category |-> pr.category, severity |-> pr.severity,
                 location |-> pr.location, guidance |-> pr.guidance,
                 summary |-> pr.summary],
     ctx |-> [location_known |-> cx.location_known,
              people_known |-> cx.people_known,
              safety_known |-> cx.safety_known,
              triage_complete |-> rp.sets],
     turn |-> [adjusted |-> pr.adjusted, llm_sev |-> pr.llm_sev,
               severity |-> pr.severity, path |-> rp.path,
               computed |-> rp.computed, followup |-> rp.followup],
     latch |-> latch0 \/ rp.sets,
     used |-> Used(msgs, ans, rp.invoked)]

\* _build_agent_result when pipeline.run raised after merging the severities
Raise(latch0, msgs, ans, pr) ==
    [result |-> [NoResult EXCEPT !.status = "AttributeError"],
     ctx |-> NoCtx,
     turn |-> [NoTurn EXCEPT !.adjusted = pr.adjusted, !.llm_sev = pr.llm_sev,
                             !.severity = pr.severity],
     latch |-> latch0,
     used |-> Used(msgs, ans, FALSE)]

\* lines 142-197 for the pipeline result pr and the context cx
AfterContext(latch0, msgs, ans, pr, cx, last_user_text) ==
    Compose(latch0, msgs, ans, pr, cx,
            ChooseReply(IsGreetingOf[last_user_text], latch0, cx, ans.gen,
                        pr.severity, pr.category))

\* lines 141-197 for the outcome pr of pipeline.run
AfterPipeline(latch0, msgs, ans, pr, conversation_text, last_user_text) ==
    IF pr.raised THEN Raise(latch0, msgs, ans, pr)
    ELSE AfterContext(latch0, msgs, ans, pr,
                      BuildContext(msgs, pr, conversation_text), last_user_text)

\* lines 139-197 for the texts taken from the messages
AfterTexts(rag, latch0, msgs, ans, conversation_text, last_user_text) ==
    AfterPipeline(latch0, msgs, ans,
                  PipelineRun(rag, conversation_text, BuildSummary(msgs, ans.sum),
                              ans.label, ans.sev),
                  conversation_text, last_user_text)

\* _build_agent_result(msgs) on an agent whose pipeline was built with
\* use_rag = rag and whose latch (reply_llm.triage_complete) is latch0; ans
\* holds the behaviours of the remote services and the statistical model's
\* label.  Yields
\*   result  the AgentResult, or the error raised
\*   ctx     the LLMReplyContext built for the turn, as the call leaves it
\*   turn    locals of the call: the rule-adjusted severity, the secondary
\*           estimate and the merged severity of TriagePipeline.run, the reply
\*           path taken, and the triage_complete and followup_question that
\*           _build_prompt computed (when generate_reply was called)
\*   latch   the latch after the call
\*   used    the answers the call consumed
BuildAgentResult(rag, latch0, msgs, ans) ==
    IF msgs = <<>>
    THEN [result |-> [NoResult EXCEPT !.status = "ValueError"],
          ctx |-> NoCtx, turn |-> NoTurn, latch |-> latch0, used |-> NoAnswers]
    ELSE AfterTexts(rag, latch0, msgs, ans, ConversationText(msgs), LastUserText(msgs))

\* the labels looked up in the knowledge base: its keys, the categories of
\* the pipeline and labels that neither knows
RagLabels ==
    DOMAIN Playbook \cup CRISIS_CATEGORIES \cup {"some_unknown_category", ""}

\* no lookup was made
NoLookup == [asked |-> None, status |-> "none",
             found |-> [category |-> None, guidance |-> None]]

\* no call was repeated
NoPrior == [result |-> NoResult, answers |-> NoAnswers, turn |-> NoTurn]

(***************************************************************************)
(* State                                                                   *)
(***************************************************************************)

\* the requests the threadpool of the hosting runtime serves at the same time
\* (the endpoints of api.py:100-125 are synchronous functions)
Requests == {1, 2}

\* no request is being served: neither request has arrived
Idle == [base |-> FALSE,
         req |-> [i \in Requests |-> [pc |-> "idle", msgs |-> <<>>,
                                      ans |-> NoAnswers, result |-> NoResult]]]

\* the inputs of a concurrent request.  msgs: a greeting, a report that leaves
\* triage incomplete, a report with location, people count and safety.  ans:
\* summarizer and estimator are down, the generator is down or replies.
ConcurrentInputs ==
    [msgs : {<<User("hi")>>,
             <<User("hello there is a fire")>>,
             <<User("3 people at the mall"), User("we are safe now")>>},
     ans : [sum : {SumError}, sev : {""}, label : {"other"},
            gen : {[kind |-> "exception", response |-> ""],
                   [kind |-> "body", response |-> "Thank you, help is on the way. "]}]]

\* a latch write that stores the value computed from the latch read earlier
WriteLatchComputed(current, sets) == sets

\* the latch after generate_reply and _build_agent_result of a request whose
\* generation does (not) set it: `self.triage_complete = True` (reply_llm.py:
\* 165-167) and `self.reply_llm.triage_complete = True` (agent.py:171-172) are
\* the only writes, and both store True
WriteLatch(current, sets) == IF sets THEN TRUE ELSE current

\* _adjust_severity was not applied
NotEscalated == [category |-> None, base_severity |-> None, text |-> None,
                 severity |-> None]

\* the arguments of a direct application of _adjust_severity: every category,
\* the three levels, an empty and an out-of-set base severity, and texts
\* without cue, with a flood term, with a flood term and a high-risk term,
\* with a universal high-risk term, with a trapped and a child term, with a
\* smoke term
EscalationInputs ==
    [category : CRISIS_CATEGORIES,
     base_severity : SEVERITY_LEVELS \cup {"", "critical"},
     text : {"", "A tree fell.", "The basement flooded.",
             "Water is rising, a car was swept away", "Gunshots nearby",
             "We are stuck with my son", "Thick smoke in the hall"}]

VARIABLES
    use_rag,    \* TriagePipeline(use_rag): pipeline.rag is not None
    latch,      \* reply_llm.triage_complete, the "already submitted" latch
    messages,   \* the history passed to the last call
    answers,    \* the answers the last call consumed
    result,     \* outcome of the last call: the AgentResult or the error raised
    ctx,        \* the LLMReplyContext of the last call
    turn,       \* locals of the last call
    prior,      \* when the last call repeated the call before it: the outcome
                \* of that first call
    retrieved,  \* the last lookup made on the knowledge base since the last
                \* call: the label asked for and the RAGResult
    inflight,   \* the requests that the hosting runtime serves at the same
                \* time on the one agent of api.py:81: for each its position,
                \* its history, the answers of its remote calls and its
                \* result, and the latch before the first of them arrived
    escalated   \* the last direct application of _adjust_severity: its
                \* arguments and the severity returned

vars == <<use_rag, latch, messages, answers, result, ctx, turn, prior, retrieved,
          inflight, escalated>>

Init ==
    /\ use_rag \in BOOLEAN
    /\ latch = FALSE
    /\ messages = <<>>
    /\ answers = NoAnswers
    /\ result = NoResult
    /\ ctx = NoCtx
    /\ turn = NoTurn
    /\ prior = NoPrior
    /\ retrieved = NoLookup
    /\ inflight = Idle
    /\ escalated = NotEscalated

\* the generator is called when the call reaches generate_reply
GeneratorInvoked(msgs) ==
    /\ msgs # <<>>
    /\ ~(use_rag /\ ~RagHasGenerateGuidance)
    /\ ~IsGreetingOf[LastUserText(msgs)]
    /\ ~latch

\* the behaviours met by a call on msgs when the services behave as in S: a
\* service that the call does not reach gives no answer
Met(msgs, S) ==
    IF msgs = <<>>
    THEN [sum |-> {NotInvoked}, sev |-> {None}, label |-> {None}, gen |-> {NotInvoked}]
    ELSE [S EXCEPT !.gen = IF GeneratorInvoked(msgs) THEN S.gen ELSE {NotInvoked}]

\* the call leaves outcome r for the history msgs; first is the outcome of
\* the call that it repeats, if any
Commit(msgs, r, first) ==
    /\ messages' = msgs
    /\ prior' = first
    /\ retrieved' = NoLookup
    /\ latch' = r.latch
    /\ answers' = r.used
    /\ result' = r.result
    /\ ctx' = r.ctx
    /\ turn' = r.turn
    /\ UNCHANGED <<use_rag, inflight, escalated>>

\* a call on msgs that meets the behaviours M
Call(msgs, M, first) ==
    \E s \in M.sum, v \in M.sev, l \in M.label, g \in M.gen :
        Commit(msgs, BuildAgentResult(use_rag, latch, msgs,
                                      [sum |-> s, sev |-> v, label |-> l, gen |-> g]),
               first)

\* TriageAgent.run(msgs) / run_chat(msgs), the services behaving as in S
Run(msgs, S) == Call(msgs, Met(msgs, S), NoPrior)

\* the behaviours of services that answer as they answered the last call
Again ==
    [sum |-> {answers.sum}, sev |-> {answers.sev}, label |-> {answers.label},
     gen |-> {IF GeneratorInvoked(messages) THEN answers.gen ELSE NotInvoked}]

\* the caller appends one message to the conversation and posts it
Triage(T, S) == \E m \in T : Len(messages) < MaxTurns /\ Run(Append(messages, m), S)

\* the caller posts the same history again, and the services answer as before
Retry ==
    /\ messages # <<>>
    /\ Call(messages, Again, [result |-> result, answers |-> answers, turn |-> turn])

\* a caller posts an empty message list
RunEmpty(S) == Run(<<>>, S)

\* the caller drops the conversation; the next one starts from scratch
NewChat ==
    /\ messages # <<>>
    /\ messages' = <<>>
    /\ answers' = NoAnswers
    /\ result' = NoResult
    /\ ctx' = NoCtx
    /\ turn' = NoTurn
    /\ prior' = NoPrior
    /\ retrieved' = NoLookup
    /\ UNCHANGED <<use_rag, latch, inflight, escalated>>

\* a caller looks a category label up in the knowledge base
RagRetrieve ==
    \E c \in RagLabels :
        /\ retrieved' = [asked |-> c, status |-> "returned", found |-> Retrieve(c)]
        /\ UNCHANGED <<use_rag, latch, messages, answers, result, ctx, turn, prior,
                       inflight, escalated>>

\* dialogue scenarios
Next ==
    \/ Triage(Turns, DialogueServices)
    \/ Retry
    \/ RunEmpty(DialogueServices)
    \/ NewChat

Spec == Init /\ [][Next]_vars

\* severity scenarios
NextSeverity ==
    \/ Triage(SeverityTurns, SeverityServices)
    \/ Retry
    \/ RunEmpty(SeverityServices)
    \/ NewChat

SpecSeverity == Init /\ [][NextSeverity]_vars

\* category scenarios
NextCategory ==
    \/ Triage(CategoryTurns, CategoryServices)
    \/ Retry
    \/ RunEmpty(CategoryServices)
    \/ NewChat

SpecCategory == Init /\ [][NextCategory]_vars

\* report scenarios
NextReport ==
    \/ Triage(ReportTurns, ReportServices)
    \/ Retry
    \/ RunEmpty(ReportServices)
    \/ NewChat

SpecReport == Init /\ [][NextReport]_vars

\* the behaviours of the services in the guidance scenarios: the remote
\* services are down
GuidanceServices == [sum |-> {SumError}, sev |-> {""}, label |-> {"other", "storm"},
                     gen |-> {[kind |-> "exception", response |-> ""]}]

\* guidance scenarios
NextGuidance ==
    \/ Triage(CategoryTurns, GuidanceServices)
    \/ Retry
    \/ RunEmpty(GuidanceServices)
    \/ NewChat
    \/ RagRetrieve

SpecGuidance == Init /\ [][NextGuidance]_vars

\* the behaviours of the services in the safety scenarios: the summarizer is
\* down, the generator is down or replies
SafetyServices == [sum |-> {SumError}, sev |-> {""}, label |-> {"other"},
                   gen |-> {[kind |-> "exception", response |-> ""],
                            [kind |-> "body", response |-> "Thank you, help is on the way. "]}]

\* safety scenarios
NextSafety ==
    \/ Triage(SafetyTurns, SafetyServices)
    \/ Retry
    \/ RunEmpty(SafetyServices)
    \/ NewChat

SpecSafety == Init /\ [][NextSafety]_vars

\* a request arrives (api.py:93-95) with its history; ans are the answers its
\* remote calls get.  The latch before the first request is kept in base.
Arrive(i) ==
    /\ inflight.req[i].pc = "idle"
    /\ \E in \in ConcurrentInputs :
          inflight' =
              [base |-> IF \A j \in Requests : inflight.req[j].pc = "idle"
                        THEN latch ELSE inflight.base,
               req |-> [inflight.req EXCEPT
                           ![i] = [pc |-> "arrived", msgs |-> in.msgs,
                                   ans |-> in.ans, result |-> NoResult]]]
    /\ UNCHANGED <<use_rag, latch, messages, answers, result, ctx, turn, prior,
                   retrieved, escalated>>

\* _build_agent_result up to the latch test (agent.py:131-164): the request
\* builds the summary, runs the pipeline and, unless the latest user turn is
\* a greeting, reads the latch.  A request that raised, a greeting and a
\* request that read the latch set are answered; the others call
\* generate_reply.
ReadLatch(i) ==
    /\ inflight.req[i].pc = "arrived"
    /\ LET r == BuildAgentResult(use_rag, latch, inflight.req[i].msgs,
                                 inflight.req[i].ans)
       IN  inflight' =
               [inflight EXCEPT
                   !.req[i] = IF r.turn.path \in {"generated", "fallback"}
                              THEN [@ EXCEPT !.pc = "generating"]
                              ELSE [@ EXCEPT !.pc = "done", !.result = r.result]]
    /\ UNCHANGED <<use_rag, latch, messages, answers, result, ctx, turn, prior,
                   retrieved, escalated>>

\* the remote generator answers the request that read the latch unset:
\* generate_reply (reply_llm.py:144-170) and the rest of _build_agent_result
\* (agent.py:166-197) write the latch and return the result
Generated(i) ==
    /\ inflight.req[i].pc = "generating"
    /\ LET r == BuildAgentResult(use_rag, FALSE, inflight.req[i].msgs,
                                 inflight.req[i].ans)
       IN  /\ latch' = WriteLatch(latch, r.latch)
           /\ inflight' = [inflight EXCEPT !.req[i] = [@ EXCEPT !.pc = "done",
                                                                !.result = r.result]]
    /\ UNCHANGED <<use_rag, messages, answers, result, ctx, turn, prior, retrieved,
                   escalated>>

\* the responses of the answered requests have left; the latch stays
Settle ==
    /\ \A i \in Requests : inflight.req[i].pc = "done"
    /\ inflight' = Idle
    /\ UNCHANGED <<use_rag, latch, messages, answers, result, ctx, turn, prior,
                   retrieved, escalated>>

\* concurrent requests
NextConcurrent ==
    \/ \E i \in Requests : Arrive(i)
    \/ \E i \in Requests : ReadLatch(i)
    \/ \E i \in Requests : Generated(i)
    \/ Settle

SpecConcurrent == Init /\ [][NextConcurrent]_vars

\* _adjust_severity(category, base_severity, text) is applied
AdjustSeverityCall ==
    /\ \E in \in EscalationInputs :
          escalated' = [category |-> in.category,
                        base_severity |-> in.base_severity,
                        text |-> in.text,
                        severity |-> AdjustSeverity(in.category, in.base_severity,
                                                    in.text)]
    /\ UNCHANGED <<use_rag, latch, messages, answers, result, ctx, turn, prior,
                   retrieved, inflight>>

\* the second escalation pass alone
SpecEscalation == Init /\ [][AdjustSeverityCall]_vars

(***************************************************************************)
(* Properties                                                              *)
(***************************************************************************)

\* the last call returned an AgentResult
Returned == result.status = "returned"

\* the last call reached generate_reply, so that _build_prompt computed
\* triage_complete and the follow-up question
PromptBuilt == Returned /\ turn.path \in {"generated", "fallback"}

AllFlags == ctx.location_known /\ ctx.people_known /\ ctx.safety_known

\* C1: for every conversation, the triage_complete value computed for the turn
\* and the triage_complete field of the context built for the turn are true
\* exactly when location_known, people_known and safety_known of that context
\* are all true.
C1_CompleteIffFlags ==
    PromptBuilt => /\ turn.computed <=> AllFlags
                   /\ ctx.triage_complete <=> AllFlags

\* order low < medium < high
Rank(sv) == IF sv = "low" THEN 1 ELSE IF sv = "medium" THEN 2 ELSE 3

\* C2: in TriagePipeline.run, for every rule-adjusted severity s and secondary
\* estimate e in {low, medium, high}, the merged severity is the maximum of s
\* and e under low < medium < high; the secondary estimate never lowers s.
C2_MergeIsMax ==
    LET
        \* TriagePipeline.run merged its two severities in the last call
        Merged == turn.adjusted \in SEVERITY_LEVELS /\ turn.llm_sev \in SEVERITY_LEVELS

        MaxSeverity(a, b) == IF Rank(a) >= Rank(b) THEN a ELSE b
    IN
    Merged => /\ turn.severity = MaxSeverity(turn.adjusted, turn.llm_sev)
              /\ Rank(turn.severity) >= Rank(turn.adjusted)

\* a run in which the secondary estimate is lower than the rule-adjusted
\* severity and the merged severity went on to the caller
C2_Witness ==
    /\ Returned
    /\ turn.adjusted = "high" /\ turn.llm_sev = "low"
    /\ result.severity = "high"

HighCueOf ==
    LET
        \* the high-severity cues of the rule lexicons
        HighCue(text) == ContainsAny(Lower(text), HighKeywords \cup HighAny)
    IN Tabulate([m \in Turns \cup SeverityTurns |-> HighCue(m.content)])

\* C3: if a high-severity cue occurs in some user turn of the history, the
\* severity returned for the history is high, whatever turns follow the cue,
\* whatever the secondary estimate answers and whichever summary path is taken.
C3_HighCueStaysHigh ==
    (Returned /\ \E i \in 1..Len(messages) :
                    messages[i].role = "user" /\ HighCueOf[messages[i]])
        => result.severity = "high"

\* C4: for every non-empty history, when the remote generator fails, the reply
\* of the result is non-empty and contains the severity word and the category
\* word of the same result.
C4_FallbackNamesSeverityAndCategory ==
    LET
        \* the remote generator was called and failed: the request raised, the status
        \* was not 200, the body could not be parsed or the reply was too short
        GeneratorFailed ==
            \/ answers.gen.kind \in {"exception", "status", "unparsable", "nonstring"}
            \/ answers.gen.kind = "body" /\ Len(Strip(answers.gen.response)) < MinReplyLen
    IN
    (messages # <<>> /\ GeneratorFailed) =>
        /\ Returned
        /\ result.reply # ""
        /\ Contains(result.reply, result.severity)
        /\ Contains(result.reply, result.category)

\* a too-short generated reply was replaced by the templated sentence
C4_Witness ==
    /\ answers.gen = [kind |-> "body", response |-> "OK."]
    /\ Returned
    /\ result.severity = "high" /\ result.category = "fire"
    /\ Contains(result.reply, "high severity fire situation")

\* C5: every call that returns a result returns a non-empty reply, on the
\* greeting path, the latch path, the generated path and the fallback path.
C5_ReplyNonEmpty ==
    Returned => /\ turn.path \in {"greeting", "latch", "generated", "fallback"}
                /\ Len(result.reply) > 0

\* a call answered through the latch
C5_Witness == Returned /\ turn.path = "latch" /\ result.reply = ClosingReply

\* the last call repeated the call before it: same agent, same history, the
\* services answering as before
Twice == prior.result.status # "none"

\* the six fields of the result of the first of the two calls
First == prior.result

\* the first of the two calls set the latch: the remote generator succeeded
\* and triage was computed complete
FirstSetLatch == prior.turn.path = "generated" /\ prior.turn.computed

\* the two calls agree on the five fields other than reply
SameTriage ==
    /\ result.status = First.status
    /\ result.category = First.category
    /\ result.severity = First.severity
    /\ result.location = First.location
    /\ result.guidance = First.guidance
    /\ result.summary = First.summary

\* C6 as stated: two calls in succession on the same agent with the same
\* history, the services answering identically, yield two results that are
\* identical in all six fields, reply included.
C6_RepeatIdentical ==
    (Twice /\ First.status = "returned") => result = First

\* C6: two calls in succession on the same agent with the same history, the
\* services answering identically, end alike and agree on category, severity,
\* location, guidance and summary; the replies are identical too, unless the
\* first call set the latch, in which case the second reply is the fixed
\* closing sentence.
C6_RepeatIdenticalUpToLatch ==
    Twice => /\ SameTriage
             /\ FirstSetLatch => (Returned /\ result.reply = ClosingReply)
             /\ ~FirstSetLatch => result.reply = First.reply

\* the first call returned a generated reply and set the latch; the repeated
\* call returned the same triage with the closing sentence
C6_Witness ==
    /\ Twice /\ FirstSetLatch
    /\ Returned /\ SameTriage
    /\ result.reply = ClosingReply /\ First.reply # ClosingReply

\* C7: after a call in which the remote generator succeeds and triage is
\* computed complete the latch is set; once set it stays set, and every later
\* call whose latest user turn is not a greeting returns the fixed closing
\* sentence without calling the remote generator.
C7_LatchShortCircuits ==
    [][LET \* the step is a call that was given a latest user turn other
           \* than a greeting
           CallNotGreeting ==
               /\ result'.status # "none"
               /\ messages' # <<>>
               /\ ~IsGreetingOf[LastUserText(messages')]
       IN  /\ (turn'.path = "generated" /\ turn'.computed) => latch'
           /\ latch => latch'
           /\ (latch /\ CallNotGreeting) =>
                  /\ result'.status = "returned"
                  /\ result'.reply = ClosingReply
                  /\ turn'.path = "latch"
                  /\ answers'.gen = NotInvoked]_vars
\* a later conversation opens with a report, after an earlier one set the
\* latch: the call is answered with the closing sentence and the remote
\* generator is not called
C7_Witness ==
    /\ latch /\ ~Twice
    /\ messages = <<User("hello there is a fire")>>
    /\ Returned /\ result.reply = ClosingReply
    /\ answers.gen = NotInvoked

LatestUserTurn == messages[LatestUserIndex(messages)].content

\* C8: if the latest user turn is a bare greeting (it equals a greeting word
\* or starts with one followed by a space, and contains no emergency keyword)
\* the reply is the fixed introductory prompt, whatever the classification,
\* the latch and the remote generator; a turn that starts with a greeting but
\* contains an emergency keyword is not answered as a greeting.
C8_BareGreetingGetsIntro ==
    LET
        NamesEmergency(text) == \E k \in EmergencyKeywords : Contains(text, k)

        \* the turn equals a greeting word or starts with one followed by a space
        OpensWithGreeting(text) ==
            \E g \in GreetingKeywords : text = g \/ StartsWith(text, g \o " ")

        \* the latest user turn of the history of the last call, if there is one
        HasUserTurn == LatestUserIndex(messages) # 0
    IN
    (Returned /\ HasUserTurn /\ OpensWithGreeting(LatestUserTurn)) =>
        IF NamesEmergency(LatestUserTurn)
        THEN turn.path # "greeting" /\ result.reply # GreetingReply
        ELSE /\ turn.path = "greeting" /\ result.reply = GreetingReply
             /\ answers.gen = NotInvoked

\* the latch is set and the estimator answered high, and a greeting that
\* follows a report is still answered with the introductory prompt
C8_Witness ==
    /\ latch /\ Returned
    /\ messages = <<User("hello there is a fire"), User("hey there")>>
    /\ result.severity = "high" /\ result.category = "fire"
    /\ result.reply = GreetingReply

\* C9: for every combination of the three knowledge flags, when triage is not
\* complete exactly one follow-up question is proposed, on the first
\* unresolved topic in the order location, people count, safety; when triage
\* is complete none is proposed; a proposed follow-up never concerns a topic
\* whose flag is true.
C9_FollowupFirstUnresolved ==
    LET
        \* the question on the first topic, in the order location, people count,
        \* safety, whose flag is false in the context of the last call; None when the
        \* three flags are true
        FirstUnresolved ==
            IF ~ctx.location_known THEN LocationQuestion
            ELSE IF ~ctx.people_known THEN PeopleQuestion
            ELSE IF ~ctx.safety_known THEN SafetyQuestion
            ELSE None
    IN
    PromptBuilt => /\ turn.followup = FirstUnresolved
                   /\ (turn.followup = None) <=> AllFlags

\* a call was made
Called == result.status # "none"

\* C10: TriageAgent.run has exactly one failure mode: it raises when the
\* message list is empty, and for every non-empty message list it returns a
\* complete six-field result, whatever the statistical model, the knowledge
\* base and the remote services do.
C10_OnlyEmptyInputFails ==
    Called => IF messages = <<>> THEN result.status = "ValueError"
              ELSE /\ Returned
                   /\ result.reply # "" /\ result.guidance # ""
                   /\ result.summary # ""
                   /\ result.category \in CRISIS_CATEGORIES
                   /\ result.severity \in SEVERITY_LEVELS

\* C11: for every text, every label of the statistical model (labels outside
\* the known set included) and every outcome of the secondary estimator, the
\* category of the result is one of the six categories and the severity one
\* of low, medium, high; a label outside the closed set is never returned as
\* the category: the result is what the keyword rules give for "other".
C11_ClosedCategoryAndSeverity ==
    Returned =>
        /\ result.category \in CRISIS_CATEGORIES
        /\ result.severity \in SEVERITY_LEVELS
        /\ (answers.label # None /\ answers.label \notin CRISIS_CATEGORIES) =>
              /\ result.category # answers.label
              /\ result.category = ClassifyOf[result.summary, "other"].category

\* the model answered a label outside the closed set and the estimator a word
\* that is no severity level: the keyword sweep decided the category
C11_Witness ==
    /\ Returned
    /\ answers.label = "tornado" /\ answers.sev = "critical"
    /\ messages = <<User("strong shaking")>>
    /\ result.category = "earthquake" /\ result.severity = "medium"

\* the summaries of the category scenarios
CategoryTexts == {BuildSummary(h, SumError) : h \in HistoriesOver(CategoryTurns)}

CategoryCuesOf ==
    LET
        \* what the category rules find in a text: the flood lexical override, a
        \* smoke-only phrase, and the category of the keyword sweep (None when no
        \* sweep keyword occurs)
        CategoryCues(text) ==
            LET t == Lower(text)
            IN  [flood |-> \/ ContainsAny(t, {"flood", "flooded", "flooding"})
                           \/ WordThenWord(t, "water", "basement")
                           \/ WordThenWord(t, "basement", "water")
                           \/ (Contains(t, "water")
                               /\ ContainsAny(t, {"house", "home", "apartment"})),
                 smoke |-> ContainsAny(t, {"heavy smoke", "thick smoke",
                               "smoke in my apartment", "smoke everywhere",
                               "smoke in the building", "smoke coming from"}),
                 sweep |-> IF ContainsAny(t, {"water is rising", "water rising",
                                  "river overflow"}) THEN "flood"
                           ELSE IF ContainsAny(t, {"earthquake", "tremor",
                                       "strong shaking", "ground shaking"}) THEN "earthquake"
                           ELSE IF ContainsAny(t, {"fire", "burning", "wildfire"}) THEN "fire"
                           ELSE None]
    IN Tabulate([t \in CategoryTexts |-> CategoryCues(t)])

CategorySourceOf ==
    Tabulate([t \in CategoryTexts, l \in CategoryLabels |-> CategorySource(t, l)])

\* C12: the category rules apply in strict precedence, first match wins: the
\* flood lexical override decides flood even with a smoke phrase present and
\* whatever the model predicts; otherwise a smoke-only phrase decides fire
\* whatever the model predicts; otherwise a model label of the closed set
\* other than "other" is returned unchanged, sweep keywords or not; otherwise
\* the keyword sweep decides; otherwise the category is other with provenance
\* fallback.
C12_CategoryPrecedence ==
    (Returned /\ result.summary \in CategoryTexts) =>
        LET cues == CategoryCuesOf[result.summary]
            source == CategorySourceOf[result.summary, answers.label]
        IN  IF cues.flood
            THEN result.category = "flood" /\ source = "keyword_override"
            ELSE IF cues.smoke
            THEN result.category = "fire" /\ source = "keyword_override"
            ELSE IF answers.label \in CRISIS_CATEGORIES \ {"other"}
            THEN result.category = answers.label /\ source = "model"
            ELSE IF cues.sweep # None
            THEN result.category = cues.sweep /\ source = "keyword_override"
            ELSE result.category = "other" /\ source = "fallback"

\* a report with a smoke phrase and the flood override, the model predicting
\* storm: the flood override decided
C12_Witness ==
    /\ Returned
    /\ messages = <<User("Smoke everywhere!"), User("The basement flooded.")>>
    /\ answers.label = "storm"
    /\ result.category = "flood"

\* the severity of the run that differs from the last call in the model's
\* label only: same summary text, same secondary estimate
SeverityWith(label) ==
    MergeSeverity(AdjustSeverityOf[result.summary, label],
                  InferOf(result.summary, answers.sev))

\* C13 as stated: for a fixed summary text and a fixed secondary estimate the
\* severity returned by the pipeline is the same whatever label the model
\* predicts and whichever precedence rule decides the category.
C13_SeverityIgnoresLabel ==
    Returned => \A l \in CategoryLabels : SeverityWith(l) = result.severity

\* C13: for a fixed summary text and a fixed secondary estimate, two runs that
\* differ only in the model label return the same severity whenever they
\* agree on whether the category is flood; when the label decides between
\* flood and another category, the run whose category is flood returns a
\* severity at least as high as the other.
C13_SeverityIgnoresLabelUpToFlood ==
    Returned =>
        /\ result.severity = SeverityWith(answers.label)
        /\ \A l \in CategoryLabels :
              IF (ClassifyOf[result.summary, l].category = "flood") <=> (result.category = "flood")
              THEN SeverityWith(l) = result.severity
              ELSE result.category = "flood" =>
                      Rank(result.severity) >= Rank(SeverityWith(l))

\* rising water and a car swept away: the sweep decides flood and the
\* severity is high, where the run in which the model predicts storm returns
\* medium
C13_Witness ==
    /\ Returned
    /\ messages = <<User("water is rising, a car was swept away")>>
    /\ answers.label = "other" /\ answers.sev = "low"
    /\ result.category = "flood" /\ result.severity = "high"
    /\ ClassifyOf[result.summary, "storm"].category = "storm"
    /\ SeverityWith("storm") = "medium"

UniversalHighRiskOf ==
    LET
        \* the universal high-risk terms: violence and weapons, heavy bleeding, not
        \* breathing, fire entrapment, unreachable exit
        UniversalHighRisk ==
            {"gunshot", "gunshots", "shots fired", "active shooter", "shooter", "armed",
             "stabbing", "stabbed", "knife", "attack", "bleeding heavily",
             "heavy bleeding", "blood everywhere", "not breathing", "no pulse",
             "doing cpr", "trying cpr", "fire inside", "smoke is filling",
             "smoke filling", "cannot reach the exit", "can't reach the exit",
             "hallway is burning", "trapped inside", "can't get out", "cannot get out"}
    IN
    Tabulate([t \in CategoryTexts |-> ContainsAny(Lower(t), UniversalHighRisk)])

\* C14: if the summary text contains a universal high-risk term, the final
\* severity is high for every category outcome and every secondary estimate,
\* a failed secondary call included.
C14_UniversalHighRiskIsHigh ==
    (Returned /\ UniversalHighRiskOf[result.summary]) => result.severity = "high"

\* a report of gunshots after a report without any cue, the model predicting
\* storm and the estimator answering low
C14_Witness ==
    /\ Returned
    /\ messages = <<User("a tree fell"), User("Gunshots, someone is bleeding heavily")>>
    /\ answers.label = "storm" /\ answers.sev = "low"
    /\ turn.llm_sev = "low"
    /\ result.category = "storm" /\ result.severity = "high"

C16_TwoTierGuidance ==
    (Called /\ messages # <<>>) =>
        /\ Returned
        /\ result.guidance = IF use_rag
                              THEN IF result.category \in DOMAIN Playbook
                                   THEN Playbook[result.category]
                                   ELSE DefaultGuidance
                              ELSE DefaultGuidance

\* the cues of the summaries of the report scenarios
LocationCuesOf ==
    LET
        \* what the extractor finds in a text: the street address, a landmark
        \* keyword, the matches of the three prepositional patterns and the
        \* first of them in the order near, at, in ("" when there is none)
        LocationCues(text) ==
            LET lowered == Lower(text)
                nearM == PrepMatch(lowered, "near ")
                atM == PrepMatch(lowered, "at ")
                inM == PrepMatch(lowered, "in ")
            IN  [address |-> ExtractAddress(text),
                 landmark |-> ContainsAny(lowered, {"mall", "station", "airport"}),
                 matches |-> <<nearM, atM, inM>>,
                 phrase |-> IF nearM # "" THEN nearM ELSE IF atM # "" THEN atM ELSE inM]
    IN
    Tabulate([t \in {BuildSummary(h, a) : h \in HistoriesOver(ReportTurns),
                                         a \in ReportSumAnswers}
                 |-> LocationCues(t)])

\* C17: when the text contains no street address and no landmark keyword, a
\* prepositional phrase ("near X", "at X", "in X") is returned as the
\* location only if the captured phrase contains a geographic token;
\* otherwise the extractor returns the empty string, so that "I am in danger"
\* yields an empty location.
C17_PhraseNeedsGeographicToken ==
    (Returned /\ result.summary \in DOMAIN LocationCuesOf) =>
        LET cues == LocationCuesOf[result.summary]
        IN  /\ (cues.address = "" /\ ~cues.landmark) =>
                  IF cues.phrase # "" /\ \E tok \in GeoTokens : Contains(cues.phrase, tok)
                  THEN result.location = Strip(cues.phrase)
                  ELSE result.location = ""
            /\ result.summary = "I am in danger" => result.location = ""

\* "in danger" is a prepositional phrase without geographic token: the
\* location is empty
C17_Witness ==
    /\ Returned
    /\ messages = <<User("I am in danger")>>
    /\ result.summary = "I am in danger"
    /\ LocationCuesOf[result.summary].phrase = "in danger"
    /\ result.location = ""

\* C18: the location of a returned result is a string, the empty string when
\* nothing was extracted and never null, and the location_known flag of the
\* reply context is true exactly when the location is non-empty.
C18_LocationKnownIffNonEmpty ==
    Returned =>
        /\ result.location # None
        /\ result.location \in {ExtractLocationOf[result.summary], Strip(ExtractLocationOf[result.summary])}
        /\ ctx.location_known <=> (result.location # "")

\* the summarizer's text names no place although the user did: the location
\* is the empty string and the flag is false
C18_Witness ==
    /\ Returned
    /\ messages = <<User("we are near the park")>>
    /\ result.summary = "Caller reports an incident."
    /\ result.location = ""
    /\ ~ctx.location_known

\* C19: the summary step always returns a non-empty text and never raises,
\* whatever the summarizer does (exception, timeout, malformed body, empty or
\* too-short text): on failure the summary is the user texts joined with
\* single spaces and cut to the trailing 400 characters, or the sentence
\* "User reported an issue." when there is no user text.
C19_SummaryNeverEmpty ==
    (Called /\ messages # <<>> /\ ~use_rag) =>
      LET joined == Strip(Join(" ", UserTexts(messages)))
          failed ==
              \/ answers.sum.kind \in {"error", "nonstring"}
              \/ /\ answers.sum.kind = "body"
                 /\ Len(Strip(answers.sum.response)) < MinSummaryLen
      IN
        /\ Returned
        /\ result.summary # ""
        /\ result.summary # None
        /\ joined = "" => result.summary = "User reported an issue."
        /\ (failed /\ joined # "") =>
              /\ Len(result.summary) <= 400
              /\ result.summary =
                    SubSeq(joined,
                           Len(joined) - Len(result.summary) + 1,
                           Len(joined))
              /\ Len(result.summary) = IF Len(joined) <= 400
                                       THEN Len(joined) ELSE 400

\* the "response" value is not a string and the joined user texts are longer
\* than 400 characters: the summary is their last 400 characters
C19_Witness ==
    /\ Returned
    /\ messages = <<User("fire at 12 Main Street"), User(LongReport)>>
    /\ answers.sum.kind = "nonstring"
    /\ Len(Strip(Join(" ", UserTexts(messages)))) > 400
    /\ Len(result.summary) = 400

C21_UnsafeNeverCompletes ==
    LET low == Lower(ConversationText(messages))
    IN  (PromptBuilt /\ ContainsAny(low, UnsafeCues) /\ ~ContainsAny(low, SafeCues)) =>
            /\ ~turn.computed
            /\ ~ctx.triage_complete
            /\ ~latch

\* C22: the safety_known flag is true if and only if the conversation text
\* contains an explicit safe-state phrase or an explicit unsafe-state phrase;
\* it is false only when the text contains neither.
C22_SafetyKnownIffPhrase ==
    Returned =>
        (ctx.safety_known <=>
            ContainsAny(Lower(ConversationText(messages)), SafeCues \cup UnsafeCues))

\* C23: across the turns of one conversation, once a topic (location, people
\* count, safety) is resolved for a message history, it stays resolved for
\* every history that extends it with further turns, so the follow-up
\* question on that topic is never proposed again on a later turn.
C23_ResolvedStaysResolved ==
    [][(/\ PromptBuilt
        /\ PromptBuilt'
        /\ Len(messages') > Len(messages)
        /\ SubSeq(messages', 1, Len(messages)) = messages) =>
           /\ ctx.location_known =>
                 ctx'.location_known /\ turn'.followup # LocationQuestion
           /\ ctx.people_known =>
                 ctx'.people_known /\ turn'.followup # PeopleQuestion
           /\ ctx.safety_known =>
                 ctx'.safety_known /\ turn'.followup # SafetyQuestion]_vars

\* C24 as stated: the result of a triage request depends only on the message
\* history passed in and on the answers of its own remote calls: it is the
\* result that an agent which served no request before returns for the same
\* history, for some answer of the generator.
C24_HistoryDecidesResult ==
    Returned =>
        \E g \in GenAnswers \cup {NotInvoked} :
            result = BuildAgentResult(use_rag, FALSE, messages,
                                      [answers EXCEPT !.gen = g]).result

\* C24: category, severity, location, guidance and summary of a result depend
\* only on the history and on the answers of the call's own remote calls; so
\* does the reply, unless an earlier request served by the same agent set the
\* latch and the latest user message is not a greeting: then the reply is
\* the fixed closing sentence.
C24_HistoryDecidesUpToLatch ==
    Returned =>
        LET fresh == BuildAgentResult(use_rag, FALSE, messages, answers).result
        IN  IF turn.path = "latch"
            THEN /\ result.reply = ClosingReply
                 /\ result = [fresh EXCEPT !.reply = ClosingReply]
            ELSE result = fresh

\* a request answered with the closing sentence because an earlier request
\* set the latch; an agent that served no request gives another reply
C24_Witness ==
    /\ Returned
    /\ turn.path = "latch"
    /\ result.reply = ClosingReply
    /\ \A g \in GenAnswers :
          BuildAgentResult(use_rag, FALSE, messages,
                           [answers EXCEPT !.gen = g]).result.reply # ClosingReply

\* C25: for two requests served concurrently by the same agent the latch
\* needs no ordering: under every interleaving of their latch reads and
\* writes the final latch is set iff it was set before or at least one of the
\* two has a successful generation with complete triage; and the latch
\* changes only the reply field, never category, severity, location,
\* guidance or summary.
C25_LatchNeedsNoOrdering ==
    (\A i \in Requests : inflight.req[i].pc = "done") =>
        LET alone(i) == BuildAgentResult(use_rag, FALSE, inflight.req[i].msgs,
                                         inflight.req[i].ans)
        IN  /\ latch <=> (inflight.base \/ \E i \in Requests : alone(i).latch)
            /\ \A i \in Requests :
                  \/ inflight.req[i].result = alone(i).result
                  \/ inflight.req[i].result =
                        [alone(i).result EXCEPT !.reply = ClosingReply]

\* two requests with complete triage overlapped: both read the latch unset,
\* both got a generated reply, and the latch is set
C25_Witness ==
    /\ ~inflight.base
    /\ latch
    /\ \A i \in Requests :
          /\ inflight.req[i].pc = "done"
          /\ Len(inflight.req[i].msgs) = 2
          /\ inflight.req[i].result.status = "returned"
          /\ inflight.req[i].result.reply = "Thank you, help is on the way."

\* C26: the second escalation pass (_adjust_severity) is escalation-only: for
\* every category, every text and every base severity in {low, medium, high}
\* it returns a value in {low, medium, high} that is never lower than the
\* base, and an empty or out-of-set base value is normalized to medium when
\* no escalation cue applies.
C26_EscalationOnly ==
    escalated # NotEscalated =>
        /\ escalated.severity \in SEVERITY_LEVELS
        /\ escalated.base_severity \in SEVERITY_LEVELS =>
              Rank(escalated.severity) >= Rank(escalated.base_severity)
        /\ escalated.base_severity \notin SEVERITY_LEVELS =>
              escalated.severity \in {"medium", "high"}
        /\ (escalated.base_severity \notin SEVERITY_LEVELS
               /\ escalated.text \in {"", "A tree fell.", "The basement flooded."}) =>
              escalated.severity = "medium"

\* an out-of-set base severity comes out as medium on a flood text without
\* high-risk term
C26_Witness ==
    /\ escalated.category = "flood"
    /\ escalated.text = "The basement flooded."
    /\ escalated.base_severity = "critical"
    /\ escalated.severity = "medium"

\* C27: when the remote severity service is unavailable or returns an invalid
\* answer, the final severity is never low for any text: the local fallback
\* estimate defaults to medium (high on a life-threatening cue) and the merge
\* raises a low rule-based severity to medium.
C27_FallbackNeverLow ==
    (Called /\ messages # <<>> /\ answers.sev \notin SEVERITY_LEVELS) =>
        /\ turn.llm_sev = RuleBasedSeverityOf[IF Returned THEN result.summary
                                              ELSE BuildSummary(messages, answers.sum)]
        /\ turn.llm_sev \in {"medium", "high"}
        /\ turn.severity \in {"medium", "high"}
        /\ Returned => result.severity = turn.severity

\* the estimator answered a word that is not a level on a text that the rules
\* rate low: the fallback estimate is medium and so is the result
C27_Witness ==
    /\ Returned
    /\ answers.sev = "critical"
    /\ turn.adjusted = "low"
    /\ turn.llm_sev = "medium"
    /\ result.severity = "medium"

\* C28: the latch is true only if some earlier call on the same agent had a
\* successful generation with triage computed complete; a failed, greeting
\* or incomplete call never sets it; and once set it is never reset, by any
\* later call of any conversation.
C28_LatchSetOnlyByCompleteGeneration ==
    [][/\ (latch' /\ ~latch) =>
              /\ result'.status = "returned"
              /\ turn'.path = "generated"
              /\ turn'.computed
              /\ answers'.gen.kind = "body"
              /\ Len(Strip(answers'.gen.response)) >= MinReplyLen
       /\ latch => latch']_vars

\* the latch was set by an earlier call and a later call that fails on an
\* empty message list leaves it set
C28_Witness ==
    /\ latch
    /\ messages = <<>>
    /\ result.status = "ValueError"

\* C29: a turn whose latest user message is a greeting never invokes the
\* remote reply generator and leaves the latch unchanged, and the greeting
\* reply takes precedence over the "already submitted" closing sentence when
\* the latch is already set; the structured fields (category, severity,
\* location, guidance, summary) are still computed from the full
\* conversation on that turn.
C29_GreetingTurn ==
    [][(/\ result'.status = "returned"
        /\ IsGreetingOf[LastUserText(messages')]) =>
           LET summary == BuildSummary(messages', answers'.sum)
               pr == PipelineRun(FALSE, ConversationText(messages'), summary,
                                 answers'.label, answers'.sev)
           IN  /\ answers'.gen = NotInvoked
               /\ latch' = latch
               /\ turn'.path = "greeting"
               /\ result'.reply = GreetingReply
               /\ result'.category = pr.category
               /\ result'.severity = pr.severity
               /\ result'.location = pr.location
               /\ result'.guidance = pr.guidance
               /\ result'.summary = summary]_vars

\* the latch is set and a greeting follows a report of people at the mall:
\* the reply is the introductory prompt and the location is still reported
C29_Witness ==
    /\ latch /\ Returned
    /\ messages = <<User("3 people at the mall"), User("hi")>>
    /\ answers.sum = SumError
    /\ answers.gen = NotInvoked
    /\ result.reply = GreetingReply
    /\ result.location = "the mall"
    /\ result.summary = "3 people at the mall hi"

\* C30: in the prepositional stage of location extraction only the first
\* pattern that matches, in the order near, at, in, is considered: if that
\* candidate contains no geographic token the result is the empty string,
\* even when a lower-priority pattern would capture a phrase that contains a
\* geographic token; and the stage is reached only when neither the
\* street-address pattern nor a landmark keyword matched.
C30_FirstPatternOnly ==
    (Returned /\ result.summary \in DOMAIN LocationCuesOf) =>
        LET cues == LocationCuesOf[result.summary]
            first == CHOOSE i \in 1..4 :
                        /\ i <= 3 => cues.matches[i] # ""
                        /\ \A j \in 1..(i - 1) : cues.matches[j] = ""
        IN  /\ cues.address # "" => result.location = cues.address
            /\ (cues.address = "" /\ cues.landmark) =>
                  result.location \in {"the mall", "the station", "the airport"}
            /\ (cues.address = "" /\ ~cues.landmark /\ first <= 3) =>
                  IF ContainsAny(cues.matches[first], GeoTokens)
                  THEN result.location = Strip(cues.matches[first])
                  ELSE result.location = ""
            /\ (cues.address = "" /\ ~cues.landmark /\ first = 4) =>
                  result.location = ""

\* "at this" is the first match and holds no geographic token: the location
\* is empty although the pattern for "in" captures "in the city"
C30_Witness ==
    /\ Returned
    /\ messages = <<User("look at this, we are in the city.")>>
    /\ result.summary = "look at this, we are in the city."
    /\ LocationCuesOf[result.summary].matches = <<"", "at this", "in the city">>
    /\ result.location = ""
====
